---- MODULE Spec2Model ----
(***************************************************************************)
(* Streaming text-to-speech pipeline of the speech-to-speech demo:         *)
(*   useTextChunking  (segmenter)       extractSentences / clearBuffer     *)
(*   useAutoTTS       (coordinator)     main effect, processSentences      *)
(*   useTTSGeneration (dispatcher)      generateTTS                        *)
(*   useAudioPlayback (sequencer)       addToQueue / playNextInQueue       *)
(*   useStreamingBuffer                 stall timer                        *)
(*                                                                         *)
(* A text is a sequence of characters.  A character is a record            *)
(* [c |-> the character, p |-> its position in the assistant message];     *)
(* p is history information only (0 for a separator the code inserts) and  *)
(* no operator of the code reads it.                                       *)
(***************************************************************************)
EXTENDS Integers, Sequences, FiniteSets, TLC

\* ------------------------------------------------------------------------
\* Characters and strings
\* ------------------------------------------------------------------------

Terminators == {".", "!", "?"}

Whitespace == {" ", "\n"}

IsTerm(ch) == ch.c \in Terminators

IsWS(ch) == ch.c \in Whitespace

\* The separator of  a + " " + b
SP == [c |-> " ", p |-> 0]

\* The characters of a text without the history positions: what === compares.
Chars(s) == [i \in 1..Len(s) |-> s[i].c]

\* String.prototype.trim
Trim(s) ==
    LET keep == {i \in 1..Len(s) : ~IsWS(s[i])}
    IN  IF keep = {} THEN <<>>
        ELSE LET lo == CHOOSE i \in keep : \A j \in keep : i <= j
                 hi == CHOOSE i \in keep : \A j \in keep : i >= j
             IN  SubSeq(s, lo, hi)

\* a + " " + b
JoinSp(a, b) == a \o <<SP>> \o b

\* /[.!?]\s*$/.test(s)
HasCompleteEnd(s) ==
    LET t == Trim(s) IN Len(t) > 0 /\ IsTerm(t[Len(t)])

\* n copies of the character c
Rep(c, n) == [i \in 1..n |-> c]

\* The text with characters cs that sits at positions from+1.. of the message
Tag(cs, from) == [i \in 1..Len(cs) |-> [c |-> cs[i], p |-> from + i]]

\* ------------------------------------------------------------------------
\* useTextChunking.extractSentences
\* ------------------------------------------------------------------------

\* The provider's minimum text length
MinTTSLength == 28

\* "Sanity check for very tiny sentences"
TinyLength == 10

\* Last index of the run of terminators that starts at b
RunEnd(s, b) ==
    CHOOSE j \in b..Len(s) :
        /\ \A k \in b..j : IsTerm(s[k])
        /\ j = Len(s) \/ ~IsTerm(s[j + 1])

\* Last index of the run of whitespace that follows index j (j if none)
WsEnd(s, j) ==
    CHOOSE e \in j..Len(s) :
        /\ \A k \in (j + 1)..e : IsWS(s[k])
        /\ e = Len(s) \/ ~IsWS(s[e + 1])

\* /([.!?]+(?:\s+|$))/ matches at b: terminators followed by whitespace or
\* by the end of the text
MatchesAt(s, b) ==
    /\ IsTerm(s[b])
    /\ LET j == RunEnd(s, b) IN j = Len(s) \/ IsWS(s[j + 1])

\* Variant: a complete sentence of 10 to 27 characters is returned at once
ProcessChunk_NoHold(acc, chunk) ==
    IF Len(chunk) >= TinyLength
    THEN IF acc.pending # <<>>
         THEN [acc EXCEPT !.sentences = Append(@, JoinSp(acc.pending, chunk)),
                          !.pending = <<>>]
         ELSE [acc EXCEPT !.sentences = Append(@, chunk)]
    ELSE IF acc.pending # <<>>
         THEN [acc EXCEPT !.pending = JoinSp(acc.pending, chunk)]
         ELSE [acc EXCEPT !.pending = chunk]

\* Variant: a join with the pending sentence is returned whatever its length
ProcessChunk_JoinAlways(acc, chunk) ==
    IF Len(chunk) >= TinyLength
    THEN IF Len(chunk) >= MinTTSLength
         THEN IF acc.pending # <<>>
              THEN [acc EXCEPT !.sentences = Append(@, JoinSp(acc.pending, chunk)),
                               !.pending = <<>>]
              ELSE [acc EXCEPT !.sentences = Append(@, chunk)]
         ELSE IF acc.pending # <<>>
              THEN [acc EXCEPT !.sentences = Append(@, JoinSp(acc.pending, chunk)),
                               !.pending = <<>>]
              ELSE [acc EXCEPT !.pending = chunk]
    ELSE IF acc.pending # <<>>
         THEN [acc EXCEPT !.pending = JoinSp(acc.pending, chunk)]
         ELSE [acc EXCEPT !.pending = chunk]

\* Variant: a complete sentence below 10 characters is returned at once
ProcessChunk_TinyAlone(acc, chunk) ==
    IF Len(chunk) >= TinyLength
    THEN IF Len(chunk) >= MinTTSLength
         THEN IF acc.pending # <<>>
              THEN [acc EXCEPT !.sentences = Append(@, JoinSp(acc.pending, chunk)),
                               !.pending = <<>>]
              ELSE [acc EXCEPT !.sentences = Append(@, chunk)]
         ELSE IF acc.pending # <<>>
              THEN LET grown == JoinSp(acc.pending, chunk)
                   IN  IF Len(grown) >= MinTTSLength
                       THEN [acc EXCEPT !.sentences = Append(@, grown),
                                        !.pending = <<>>]
                       ELSE [acc EXCEPT !.pending = grown]
              ELSE [acc EXCEPT !.pending = chunk]
    ELSE [acc EXCEPT !.sentences = Append(@, chunk)]

\* One iteration of the loop over the parts for a part that is a boundary;
\* chunk is currentChunk.trim()
ProcessChunk(acc, chunk) ==
    IF Len(chunk) >= TinyLength
    THEN IF Len(chunk) >= MinTTSLength
         THEN IF acc.pending # <<>>
              THEN [acc EXCEPT !.sentences = Append(@, JoinSp(acc.pending, chunk)),
                               !.pending = <<>>]
              ELSE [acc EXCEPT !.sentences = Append(@, chunk)]
         ELSE IF acc.pending # <<>>
              THEN LET grown == JoinSp(acc.pending, chunk)
                   IN  IF Len(grown) >= MinTTSLength
                       THEN [acc EXCEPT !.sentences = Append(@, grown),
                                        !.pending = <<>>]
                       ELSE [acc EXCEPT !.pending = grown]
              ELSE [acc EXCEPT !.pending = chunk]
    ELSE IF acc.pending # <<>>
         THEN [acc EXCEPT !.pending = JoinSp(acc.pending, chunk)]
         ELSE [acc EXCEPT !.pending = chunk]

\* fullText.split(...) and the loop over its parts, from index i on:
\* acc = [sentences, pending, currentChunk]
RECURSIVE ScanParts(_, _, _)

\* The part that ends with the boundary's last character e
ScanBoundary(s, i, acc, e) ==
    ScanParts(s, e + 1, ProcessChunk(acc, Trim(SubSeq(s, i, e))))

\* The first match at or after i
FirstMatch(s, i) ==
    CHOOSE b \in i..Len(s) :
        MatchesAt(s, b) /\ \A y \in i..(b - 1) : ~MatchesAt(s, y)

ScanParts(s, i, acc) ==
    IF \A b \in i..Len(s) : ~MatchesAt(s, b)
    THEN [acc EXCEPT !.currentChunk = SubSeq(s, i, Len(s))]
    ELSE ScanBoundary(s, i, acc, WsEnd(s, RunEnd(s, FirstMatch(s, i))))

\* The two "pending + ongoing text" blocks after the loop
PendingPlusOngoing(acc, needNone) ==
    IF acc.pending # <<>> /\ Len(acc.currentChunk) > 0
       /\ (needNone => acc.sentences = <<>>)
    THEN LET combined == JoinSp(acc.pending, Trim(acc.currentChunk))
         IN  IF HasCompleteEnd(combined) /\ Len(combined) >= MinTTSLength
             THEN [sentences |-> Append(acc.sentences, combined),
                   pending |-> <<>>, currentChunk |-> <<>>]
             ELSE acc
    ELSE acc

\* else-branch of the second block: a pending sentence with no ongoing text
\* goes back into the buffer
PendingToBuffer(acc) ==
    IF ~(acc.pending # <<>> /\ Len(acc.currentChunk) > 0) /\ acc.pending # <<>>
    THEN [acc EXCEPT !.currentChunk = JoinSp(acc.pending, acc.currentChunk),
                     !.pending = <<>>]
    ELSE acc

\* extractSentences(text) with the refs' values buf, pend:
\* [sentences, buffer, pending]
\* The second block after the loop with its else-branch
SecondBlock(acc) ==
    IF acc.pending # <<>> /\ Len(acc.currentChunk) > 0
    THEN PendingPlusOngoing(acc, FALSE)
    ELSE PendingToBuffer(acc)

\* "Update buffer with incomplete chunk" and the returned value
UpdateBuffer(acc) ==
    [sentences |-> acc.sentences, buffer |-> acc.currentChunk,
     pending |-> acc.pending]

ExtractSentences(buf, pend, text) ==
    IF Trim(text) = <<>>
    THEN [sentences |-> <<>>, buffer |-> buf, pending |-> pend]
    ELSE UpdateBuffer(SecondBlock(PendingPlusOngoing(
             ScanParts(buf \o text, 1,
                 [sentences |-> <<>>, pending |-> pend, currentChunk |-> <<>>]),
             TRUE)))

\* ------------------------------------------------------------------------
\* State
\* ------------------------------------------------------------------------

VARIABLES
    \* props of useAutoTTS
    msgId,                    \* id of the last assistant message, 0: none yet
    script,                   \* which of Scripts that message streams
    delivered,                \* deltas of that message streamed so far
    currentText,              \* its text
    chatStatus,               \* "loading" | "idle"
    selectedSpeaker,          \* the speaker selected in the parent component
    \* useTextChunking
    sentenceBuffer,           \* sentenceBufferRef
    pendingShortSentence,     \* pendingShortSentenceRef
    \* useAutoTTS
    processedSentences,       \* processedSentencesRef
    lastProcessedTextLength,  \* lastProcessedTextLengthRef
    orderCounter,             \* orderCounterRef
    conversationId,           \* conversationIdRef, 0: null
    responseSpeaker,          \* responseSpeakerRef, NoSpeaker: null
    audioChunks,              \* useState<AudioChunk[]>
    isSynthesizing,           \* the busy flag set through setIsSynthesizing
    needsRender,              \* a state update is waiting for its re-render
    mounted,                  \* the component is mounted
    \* useTTSGeneration
    inflight,                 \* generateTTS calls awaiting fetch
    \* useAudioPlayback
    isPlaying,                \* useState(false)
    audioQueue,               \* audioQueueRef
    currentAudio,             \* currentAudioRef
    nextExpectedOrder,        \* nextExpectedOrderRef
    playbackScheduled,        \* playbackScheduledRef
    playTimers,               \* pending setTimeout(() => playNextInQueue()), by
                              \* the isPlaying value their closure captured
    sounding,                 \* audio elements that are playing
    paused,                   \* audio elements stopPlayback paused
    \* useStreamingBuffer
    streamingTimeout,         \* the pending stall timer's closure, or NoTimeout
    \* history
    log,                      \* generateTTS calls of the current turn
    handed,                   \* texts handed to processSentences, current turn
    played,                   \* audios playNextInQueue started, current turn
    deferred,                 \* orders a playNextInQueue waited for ("Waiting
                              \* for chunk"), current turn
    fed,                      \* text passed to extractSentences so far
    returned,                 \* sentences extractSentences returned so far
    faults,                   \* failures injected so far
    atReset,                  \* what resetConversationState left, last call
    resolved,                 \* how the fetch of the generateTTS call that
                              \* settled last ended, and what the call settled to
    \* useTTSGeneration exercised alone
    callPhase,                \* where each generateTTS call stands
    abortControllers,         \* abortControllersRef: calls whose controller is tracked
    abortedSignals,           \* calls whose controller.abort() was called
    audioUrls,                \* audioUrlsRef: calls whose object URL is tracked
    revokedUrls,              \* calls whose object URL was revoked
    \* useWisprWebSocket exercised alone
    recorder,                 \* mediaRecorder.state, "none" before startTranscription
    recorded,                 \* dataavailable events delivered so far
    finalChunkDue,            \* stop() was called and its last dataavailable
                              \* event is still to be delivered
    handlers,                 \* where the ondataavailable handler of each chunk stands
    positionRef,              \* positionRef
    totalPacketsRef,          \* totalPacketsRef
    wsSent                    \* the messages sent over the socket, in order

vars == <<msgId, script, delivered, currentText, chatStatus, sentenceBuffer,
          pendingShortSentence, processedSentences, lastProcessedTextLength,
          orderCounter, conversationId, audioChunks, isSynthesizing, needsRender,
          selectedSpeaker, responseSpeaker, mounted, resolved, atReset,
          inflight, isPlaying, audioQueue, currentAudio, nextExpectedOrder,
          playbackScheduled, playTimers, sounding, paused, streamingTimeout,
          log, handed, played, deferred, fed, returned, faults,
          callPhase, abortControllers, abortedSignals, audioUrls, revokedUrls,
          recorder, recorded, finalChunkDue, handlers, positionRef,
          totalPacketsRef, wsSent>>

\* The state of useWisprWebSocket when it is exercised alone
wisprVars == <<recorder, recorded, finalChunkDue, handlers, positionRef,
               totalPacketsRef, wsSent>>

\* The state of useTTSGeneration when it is exercised alone
genVars == <<callPhase, abortControllers, abortedSignals, audioUrls, revokedUrls>>

\* generateTTS calls per run when useTTSGeneration is exercised alone
MaxCalls == 3

\* Audio chunks recorded per session when useWisprWebSocket is exercised alone
MaxChunks == 3

\* The state as one record, for the operators that model the hooks' functions
Cur ==
    [msgId |-> msgId, script |-> script, delivered |-> delivered, currentText |-> currentText,
     chatStatus |-> chatStatus, sentenceBuffer |-> sentenceBuffer,
     pendingShortSentence |-> pendingShortSentence,
     processedSentences |-> processedSentences,
     lastProcessedTextLength |-> lastProcessedTextLength,
     orderCounter |-> orderCounter, conversationId |-> conversationId,
     audioChunks |-> audioChunks, isSynthesizing |-> isSynthesizing,
     needsRender |-> needsRender, inflight |-> inflight, isPlaying |-> isPlaying,
     audioQueue |-> audioQueue, currentAudio |-> currentAudio,
     nextExpectedOrder |-> nextExpectedOrder,
     playbackScheduled |-> playbackScheduled, playTimers |-> playTimers,
     sounding |-> sounding, paused |-> paused,
     streamingTimeout |-> streamingTimeout, log |-> log, handed |-> handed,
     played |-> played, deferred |-> deferred, fed |-> fed, returned |-> returned, faults |-> faults,
     selectedSpeaker |-> selectedSpeaker, responseSpeaker |-> responseSpeaker,
     mounted |-> mounted, resolved |-> resolved, atReset |-> atReset]

\* The variables of the hooks of a turn take the values of st
CommitHooks(st) ==
    /\ msgId' = st.msgId
    /\ script' = st.script
    /\ delivered' = st.delivered
    /\ currentText' = st.currentText
    /\ chatStatus' = st.chatStatus
    /\ sentenceBuffer' = st.sentenceBuffer
    /\ pendingShortSentence' = st.pendingShortSentence
    /\ processedSentences' = st.processedSentences
    /\ lastProcessedTextLength' = st.lastProcessedTextLength
    /\ orderCounter' = st.orderCounter
    /\ conversationId' = st.conversationId
    /\ audioChunks' = st.audioChunks
    /\ isSynthesizing' = st.isSynthesizing
    /\ needsRender' = st.needsRender
    /\ inflight' = st.inflight
    /\ isPlaying' = st.isPlaying
    /\ audioQueue' = st.audioQueue
    /\ currentAudio' = st.currentAudio
    /\ nextExpectedOrder' = st.nextExpectedOrder
    /\ playbackScheduled' = st.playbackScheduled
    /\ playTimers' = st.playTimers
    /\ sounding' = st.sounding
    /\ paused' = st.paused
    /\ streamingTimeout' = st.streamingTimeout
    /\ log' = st.log
    /\ handed' = st.handed
    /\ played' = st.played
    /\ deferred' = st.deferred
    /\ fed' = st.fed
    /\ returned' = st.returned
    /\ faults' = st.faults
    /\ selectedSpeaker' = st.selectedSpeaker
    /\ responseSpeaker' = st.responseSpeaker
    /\ mounted' = st.mounted
    /\ resolved' = st.resolved
    /\ atReset' = st.atReset

Commit(st) == CommitHooks(st) /\ UNCHANGED genVars /\ UNCHANGED wisprVars

\* currentAudioRef.current === null
NoAudio == [turn |-> 0, order |-> 0, merged |-> FALSE]

\* responseSpeakerRef.current === null
NoSpeaker == "none"

\* The speakers of the selector, the initial selection first
Speakers == <<"vinaya_assist", "other">>

\* streamingTimeoutRef holds no pending timer
NoTimeout == [armed |-> FALSE, chatStatus |-> "idle", isPlaying |-> FALSE,
              turn |-> 0, delivered |-> 0]

\* ------------------------------------------------------------------------
\* useAudioPlayback
\* ------------------------------------------------------------------------

\* setIsPlaying(v): a re-render follows when the value changes
SetIsPlaying(st, v) ==
    [st EXCEPT !.isPlaying = v, !.needsRender = @ \/ (st.isPlaying # v)]

\* setTimeout(() => playNextInQueue(), ..) from a closure that captured cap
ArmPlayTimer(st, cap) ==
    [st EXCEPT !.playbackScheduled = TRUE,
               !.playTimers = [@ EXCEPT ![cap] = @ + 1]]

\* scheduleNext of a playNextInQueue whose closure captured cap
ScheduleNext(st, cap) ==
    IF ~st.playbackScheduled THEN ArmPlayTimer(st, cap) ELSE st

\* Variant: the head of the queue is taken, whatever its order
FindIndex_Head(q, order) == IF Len(q) = 0 THEN 0 ELSE 1

\* audioQueueRef.current.findIndex((item) => item.order === order), 0 for -1
FindIndex(q, order) ==
    LET hits == {i \in 1..Len(q) : q[i].order = order}
    IN  IF hits = {} THEN 0 ELSE CHOOSE i \in hits : \A j \in hits : i <= j

\* splice(i, 1)
Splice(q, i) == SubSeq(q, 1, i - 1) \o SubSeq(q, i + 1, Len(q))

\* Variant: an attempt that does not find the expected order skips it
PlayNextInQueue_Skip(st, cap) ==
    IF cap THEN st
    ELSE LET i == FindIndex(st.audioQueue, st.nextExpectedOrder)
         IN  IF i = 0
             THEN [st EXCEPT !.playbackScheduled = FALSE,
                             !.nextExpectedOrder = @ + 1]
             ELSE LET item == st.audioQueue[i]
                      s1 == SetIsPlaying(st, TRUE)
                  IN  [s1 EXCEPT !.audioQueue = Splice(st.audioQueue, i),
                                 !.playbackScheduled = FALSE,
                                 !.currentAudio = item.audio,
                                 !.nextExpectedOrder = item.order + 1,
                                 !.sounding = @ \cup {item.audio},
                                 !.played = Append(@, item.audio)]

\* Variant: an attempt that plays leaves the schedule flag as it was
PlayNextInQueue_KeepFlagOnPlay(st, cap) ==
    IF cap THEN st
    ELSE LET i == FindIndex(st.audioQueue, st.nextExpectedOrder)
         IN  IF i = 0
             THEN [st EXCEPT !.playbackScheduled = FALSE,
                             !.deferred = @ \cup {st.nextExpectedOrder}]
             ELSE LET item == st.audioQueue[i]
                      s1 == SetIsPlaying(st, TRUE)
                  IN  [s1 EXCEPT !.audioQueue = Splice(st.audioQueue, i),
                                 !.currentAudio = item.audio,
                                 !.nextExpectedOrder = item.order + 1,
                                 !.sounding = @ \cup {item.audio},
                                 !.played = Append(@, item.audio)]

\* Variant: an attempt that defers leaves the schedule flag as it was
PlayNextInQueue_KeepFlag(st, cap) ==
    IF cap THEN st
    ELSE LET i == FindIndex(st.audioQueue, st.nextExpectedOrder)
         IN  IF i = 0
             THEN [st EXCEPT !.deferred = @ \cup {st.nextExpectedOrder}]
             ELSE LET item == st.audioQueue[i]
                      s1 == SetIsPlaying(st, TRUE)
                  IN  [s1 EXCEPT !.audioQueue = Splice(st.audioQueue, i),
                                 !.playbackScheduled = FALSE,
                                 !.currentAudio = item.audio,
                                 !.nextExpectedOrder = item.order + 1,
                                 !.sounding = @ \cup {item.audio},
                                 !.played = Append(@, item.audio)]

\* playNextInQueue up to audio.play(), run from a closure that captured cap
PlayNextInQueue(st, cap) ==
    IF cap THEN st
    ELSE LET i == FindIndex(st.audioQueue, st.nextExpectedOrder)
         IN  IF i = 0
             THEN [st EXCEPT !.playbackScheduled = FALSE,
                             !.deferred = @ \cup {st.nextExpectedOrder}]
             ELSE LET item == st.audioQueue[i]
                      s1 == SetIsPlaying(st, TRUE)
                  IN  [s1 EXCEPT !.audioQueue = Splice(st.audioQueue, i),
                                 !.playbackScheduled = FALSE,
                                 !.currentAudio = item.audio,
                                 !.nextExpectedOrder = item.order + 1,
                                 !.sounding = @ \cup {item.audio},
                                 !.played = Append(@, item.audio)]

\* audio.onended
OnEnded(st, a) ==
    LET s1 == [st EXCEPT !.currentAudio = NoAudio, !.sounding = @ \ {a}]
    IN  ScheduleNext(SetIsPlaying(s1, FALSE), FALSE)

\* audio.onerror followed by the catch block, or the catch block alone when
\* audio.play() rejects
OnPlaybackError(st, a) ==
    LET s1 == [st EXCEPT !.currentAudio = NoAudio, !.sounding = @ \ {a}]
    IN  ScheduleNext(SetIsPlaying(s1, FALSE), FALSE)

\* addToQueue(audio, order) of the render whose isPlaying was cap
AddToQueue(st, audio, order, cap) ==
    LET s1 == [st EXCEPT !.audioQueue = Append(@, [audio |-> audio, order |-> order])]
    IN  IF ~cap /\ s1.currentAudio = NoAudio /\ ~s1.playbackScheduled
        THEN ArmPlayTimer(s1, cap)
        ELSE s1

\* stopPlayback
StopPlayback(st) ==
    LET s1 == IF st.currentAudio # NoAudio
              THEN [st EXCEPT !.currentAudio = NoAudio,
                              !.sounding = @ \ {st.currentAudio},
                              !.paused = @ \cup ({st.currentAudio} \cap st.sounding)]
              ELSE st
    IN  [SetIsPlaying(s1, FALSE) EXCEPT !.playbackScheduled = FALSE]

\* clearQueue
ClearQueue(st) == [st EXCEPT !.audioQueue = <<>>]

\* resetPlayback
ResetPlayback(st) ==
    [ClearQueue(StopPlayback(st)) EXCEPT !.nextExpectedOrder = 0]

\* canSchedulePlayback of the render whose isPlaying was cap
CanSchedulePlayback(st, cap) ==
    /\ ~cap
    /\ st.currentAudio = NoAudio
    /\ ~st.playbackScheduled
    /\ Len(st.audioQueue) > 0

\* Variant: the periodic check never arms an attempt
SchedulePlaybackCheck_Never(st, cap) == st

\* schedulePlaybackCheck
SchedulePlaybackCheck(st, cap) ==
    IF CanSchedulePlayback(st, cap) THEN ArmPlayTimer(st, cap) ELSE st

\* ------------------------------------------------------------------------
\* useTextChunking.clearBuffer, useStreamingBuffer
\* ------------------------------------------------------------------------

\* clearBuffer: "This also clears pending"
ClearBuffer(st) ==
    [st EXCEPT !.sentenceBuffer = <<>>, !.pendingShortSentence = <<>>]

\* Variant: clearStreamingTimeout leaves the timer pending
ClearStreamingTimeout_Keep(st) == st

\* clearStreamingTimeout
ClearStreamingTimeout(st) == [st EXCEPT !.streamingTimeout = NoTimeout]

\* setStreamingTimeout(callback, 1000): the existing timeout is cleared and
\* replaced.  The callback's closure holds the render's chatStatus and,
\* through processSentences, its isPlaying; turn and delivered record the
\* message and the delta of the render that armed it
SetStreamingTimeout(st, status, cap) ==
    [st EXCEPT !.streamingTimeout =
                   [armed |-> TRUE, chatStatus |-> status, isPlaying |-> cap,
                    turn |-> st.msgId, delivered |-> st.delivered]]

\* ------------------------------------------------------------------------
\* useAutoTTS
\* ------------------------------------------------------------------------

\* newText.length >= 5
MinNewText == 5

\* setAudioChunks(..): always a new array, so a re-render follows; React
\* ignores the update once the component is unmounted
SetAudioChunks(st, chunks) ==
    IF st.mounted
    THEN [st EXCEPT !.audioChunks = chunks, !.needsRender = TRUE]
    ELSE st

\* updateChunkState(chunkId, updates)
UpdateChunkState(st, id, processing, sentence, setSentence) ==
    SetAudioChunks(st,
        [i \in 1..Len(st.audioChunks) |->
            IF st.audioChunks[i].id = id
            THEN [st.audioChunks[i] EXCEPT
                      !.isProcessing = processing,
                      !.sentence = IF setSentence THEN sentence ELSE @]
            ELSE st.audioChunks[i]])

\* generateTTS(text, ..) up to its await fetch: the call is in flight.
\* id: the chunk its continuation updates; cap: the isPlaying of the render
\* whose addToQueue the continuation calls
GenerateTTS(st, id, order, text, speaker, merged, cap) ==
    [st EXCEPT !.inflight = @ \cup {[turn |-> st.conversationId, id |-> id,
                                     order |-> order, text |-> text,
                                     speaker |-> speaker,
                                     merged |-> merged, cap |-> cap,
                                     aborted |-> FALSE]},
               !.log = Append(@, [order |-> order, text |-> text,
                                  speaker |-> speaker, merged |-> merged])]

\* How a fetch of generateTTS can end: an OK response, the 400 of a text
\* below the minimum, another non-OK status, a network error, an abort
FetchOutcomes == {"ok", "400", "500", "throw", "abort"}

\* Variant: a non-OK status other than 400 escapes as a rejection
GenerateTTSResult_Throws(outcome) ==
    IF outcome = "ok" THEN "url"
    ELSE IF outcome = "500" THEN "rejected" ELSE "null"

\* What generateTTS settles to: every path that leaves the try block
\* without the URL ends in "return null"
GenerateTTSResult(outcome) ==
    IF outcome = "ok" THEN "url" ELSE "null"

\* POST /api/synthesize-stream answers 400 to a text below the minimum
TooShortForServer(text) == Len(Trim(text)) < MinTTSLength

\* cancelAllRequests: every tracked controller is aborted
CancelAllRequests(st) ==
    [st EXCEPT !.inflight = {[c EXCEPT !.aborted = TRUE] : c \in @}]

\* Variant: the speaker selected now is used, whatever was locked
LockedSpeaker_Selected(st) == st.selectedSpeaker

\* responseSpeakerRef.current || selectedSpeaker.  The closures that read
\* selectedSpeaker are those of the latest render: a change of the prop
\* re-renders, which rebuilds processSentences and cancels the stall timer.
LockedSpeaker(st) ==
    IF st.responseSpeaker # NoSpeaker THEN st.responseSpeaker
    ELSE st.selectedSpeaker

\* Variant: the order counter is read but not incremented
DispatchOne_SameOrder(st, text, cap) ==
    LET order == st.orderCounter
        id == <<st.conversationId, order>>
        s2 == SetAudioChunks(st, Append(st.audioChunks,
                  [id |-> id, sentence |-> text, order |-> order,
                   isProcessing |-> TRUE]))
    IN  GenerateTTS(s2, id, order, text, LockedSpeaker(s2), FALSE, cap)

\* The body of combinedSentences.map(..) up to its await, for one sentence
DispatchOne(st, text, cap) ==
    LET order == st.orderCounter
        id == <<st.conversationId, order>>
        s1 == [st EXCEPT !.orderCounter = order + 1]
        s2 == SetAudioChunks(s1, Append(s1.audioChunks,
                  [id |-> id, sentence |-> text, order |-> order,
                   isProcessing |-> TRUE]))
    IN  GenerateTTS(s2, id, order, text, LockedSpeaker(s2), FALSE, cap)

RECURSIVE DispatchAll(_, _, _, _)

\* Variant: the sentences are dispatched from the last to the first
RECURSIVE DispatchAll_Reversed(_, _, _, _)
DispatchAll_Reversed(st, texts, i, cap) ==
    IF i > Len(texts) THEN st
    ELSE DispatchOne(DispatchAll_Reversed(st, texts, i + 1, cap), texts[i], cap)

\* combinedSentences.map(..): every sentence is dispatched, in order
DispatchAll(st, texts, i, cap) ==
    IF i > Len(texts) THEN st
    ELSE DispatchAll(DispatchOne(st, texts[i], cap), texts, i + 1, cap)

\* "Group sentences until they meet minimum length"
RECURSIVE CombineShort(_, _, _, _)
CombineShort(unprocessed, i, currentCombined, out) ==
    IF i > Len(unprocessed) THEN out
    ELSE LET sentence == Trim(unprocessed[i])
             comb == IF currentCombined = <<>> THEN sentence
                     ELSE JoinSp(currentCombined, sentence)
         IN  IF Len(comb) >= MinTTSLength \/ i = Len(unprocessed)
             THEN CombineShort(unprocessed, i + 1, <<>>, Append(out, comb))
             ELSE CombineShort(unprocessed, i + 1, comb, out)

\* sentences.filter((sentence) => !processedSentencesRef.current.has(sentence))
Unprocessed(st, sentences) ==
    SelectSeq(sentences, LAMBDA x : Chars(x) \notin st.processedSentences)

\* processSentences(sentences) up to the awaits, from a render whose
\* isPlaying was cap
\* processSentences from "COMBINE SHORT SENTENCES" on
ProcessUnprocessed(st, unprocessed, cap) ==
    IF unprocessed = <<>> THEN st
    ELSE DispatchAll(
             [st EXCEPT !.processedSentences =
                  @ \cup {Chars(unprocessed[i]) : i \in 1..Len(unprocessed)}],
             CombineShort(unprocessed, 1, <<>>, <<>>), 1, cap)

ProcessSentences(st, sentences, cap) ==
    ProcessUnprocessed([st EXCEPT !.handed = @ \o sentences],
                       Unprocessed(st, sentences), cap)

\* resetConversationState(messageId)
ResetConversationState(st, messageId) ==
    LET s1 == [st EXCEPT !.processedSentences = {},
                         !.lastProcessedTextLength = 0,
                         !.orderCounter = 0,
                         !.conversationId = messageId,
                         !.log = <<>>, !.handed = <<>>, !.played = <<>>,
                         !.deferred = {},
                         !.fed = <<>>, !.returned = <<>>]
        s2 == ClearStreamingTimeout(ResetPlayback(ClearBuffer(s1)))
    IN  SetAudioChunks(s2, <<>>)

\* "Process new text" of the main effect
\* The refs after extractSentences returned r for newText
Extracted(st, newText, r) ==
    [st EXCEPT !.sentenceBuffer = r.buffer,
               !.pendingShortSentence = r.pending,
               !.fed = @ \o newText,
               !.returned = @ \o r.sentences]

\* "Process new text" once newText.length >= 5, r being what
\* extractSentences(newText) returned
ProcessExtracted(st, newText, r, cap) ==
    SetStreamingTimeout(
        [ProcessSentences(Extracted(st, newText, r), r.sentences, cap)
            EXCEPT !.lastProcessedTextLength = Len(st.currentText)],
        st.chatStatus, cap)

\* currentText.slice(lastProcessedTextLengthRef.current)
NewText(st) ==
    SubSeq(st.currentText, st.lastProcessedTextLength + 1, Len(st.currentText))

\* "Process new text" of the main effect
ProcessNewText(st, cap) ==
    IF Len(st.currentText) > st.lastProcessedTextLength
       /\ Len(NewText(st)) >= MinNewText
    THEN ProcessExtracted(st, NewText(st),
             ExtractSentences(st.sentenceBuffer, st.pendingShortSentence,
                              NewText(st)), cap)
    ELSE st

\* The stall timer's callback; status and cap are what its closure captured
StreamingTimeoutCallback(st, status, cap) ==
    LET bufferContent == st.sentenceBuffer
        pendingContent == st.pendingShortSentence
        combined == JoinSp(pendingContent, bufferContent)
    IN  IF pendingContent # <<>> /\ bufferContent # <<>>
           /\ Len(combined) >= MinTTSLength
        THEN ClearBuffer(ProcessSentences(st, <<Trim(combined)>>, cap))
        ELSE IF Len(bufferContent) >= MinTTSLength /\ status = "loading"
             THEN ClearBuffer(ProcessSentences(st, <<Trim(bufferContent)>>, cap))
             ELSE st

\* finalText of "Handle completion"
FinalText(st) ==
    LET remainingText == Trim(st.sentenceBuffer)
        pendingSentence == st.pendingShortSentence
    IN  IF pendingSentence # <<>> /\ remainingText # <<>>
        THEN JoinSp(pendingSentence, remainingText)
        ELSE IF pendingSentence # <<>> THEN pendingSentence
             ELSE remainingText

\* Variant: the merged sentence is dispatched under a newly allocated order
MergeWithLastChunk_NewOrder(st, chunks, finalText, cap) ==
    LET lastChunk == chunks[Len(chunks)]
        mergedSentence == JoinSp(lastChunk.sentence, finalText)
    IN  IF lastChunk.sentence # <<>>
        THEN GenerateTTS(
                 UpdateChunkState([st EXCEPT !.orderCounter = @ + 1],
                                  lastChunk.id, TRUE, <<>>, FALSE),
                 lastChunk.id, st.orderCounter, mergedSentence,
                 LockedSpeaker(st), TRUE, cap)
        ELSE st

\* "Try to merge with previous chunk if final text is too short";
\* chunks is the audioChunks value of the render
MergeWithLastChunk(st, chunks, finalText, cap) ==
    LET lastChunk == chunks[Len(chunks)]
        mergedSentence == JoinSp(lastChunk.sentence, finalText)
    IN  IF lastChunk.sentence # <<>>
        THEN GenerateTTS(
                 UpdateChunkState(st, lastChunk.id, TRUE, <<>>, FALSE),
                 lastChunk.id, lastChunk.order, mergedSentence,
                 LockedSpeaker(st), TRUE, cap)
        ELSE st

\* "Handle completion" of the main effect
FlushFinalText(st, chunks, finalText, cap) ==
    IF Len(finalText) >= MinTTSLength
    THEN ClearBuffer(ProcessSentences(st, <<finalText>>, cap))
    ELSE IF Len(finalText) > 0
         THEN ClearBuffer(IF Len(chunks) > 0
                          THEN MergeWithLastChunk(st, chunks, finalText, cap)
                          ELSE st)
         ELSE st

HandleCompletion(st, chunks, cap) ==
    FlushFinalText(st, chunks, FinalText(st), cap)

\* The main text processing effect; chunks and cap are the audioChunks and
\* isPlaying values of the render
\* The per-turn state as resetConversationState leaves it
ResetSnapshot(st) ==
    [orderCounter |-> st.orderCounter,
     sentenceBuffer |-> st.sentenceBuffer,
     pendingShortSentence |-> st.pendingShortSentence,
     audioQueue |-> st.audioQueue,
     nextExpectedOrder |-> st.nextExpectedOrder,
     isPlaying |-> st.isPlaying,
     currentAudio |-> st.currentAudio,
     sounding |-> st.sounding,
     stallTimer |-> st.streamingTimeout.armed]

\* resetConversationState has returned: its result is recorded
AfterReset(st) == [st EXCEPT !.atReset = ResetSnapshot(st)]

\* "Handle new conversation"
HandleNewConversation(st) ==
    IF st.msgId # st.conversationId
    THEN AfterReset(ResetConversationState(st, st.msgId))
    ELSE st

\* "Handle completion" when chatStatus === "idle"
MaybeHandleCompletion(st, chunks, cap) ==
    IF st.chatStatus = "idle" THEN HandleCompletion(st, chunks, cap) ELSE st

\* "Releasing speaker lock": no assistant message, or one without text
ReleaseSpeaker(st) == [st EXCEPT !.responseSpeaker = NoSpeaker]

\* "Lock speaker for this response"
LockSpeaker(st) ==
    IF st.responseSpeaker = NoSpeaker
    THEN [st EXCEPT !.responseSpeaker = st.selectedSpeaker]
    ELSE st

MainEffect(st, chunks, cap) ==
    IF st.msgId = 0 \/ st.currentText = <<>> THEN ReleaseSpeaker(st)
    ELSE MaybeHandleCompletion(
             ProcessNewText(LockSpeaker(HandleNewConversation(st)), cap),
             chunks, cap)

\* setIsSynthesizing(v): state of the parent component
SetIsSynthesizing(st, v) ==
    [st EXCEPT !.isSynthesizing = v, !.needsRender = @ \/ (st.isSynthesizing # v)]

\* The "Update synthesis status" effect
StatusEffect(st, chunks, cap) ==
    LET isProcessing == \E i \in 1..Len(chunks) : chunks[i].isProcessing
        isBusy == isProcessing \/ cap \/ Len(st.audioQueue) > 0
    IN  SchedulePlaybackCheck(SetIsSynthesizing(st, isBusy), cap)

\* One render of the component with its effects: the cleanup of the main
\* effect's previous run, the main effect, the status effect.  Every render
\* re-runs both effects: their dependencies textChunking, audioPlayback and
\* streamingBuffer are objects built anew by each render.
RenderPass(st) ==
    LET chunks == st.audioChunks
        cap == st.isPlaying
        s0 == ClearStreamingTimeout([st EXCEPT !.needsRender = FALSE])
    IN  StatusEffect(MainEffect(s0, chunks, cap), chunks, cap)

\* ------------------------------------------------------------------------
\* The assistant messages the chat streams
\* ------------------------------------------------------------------------

\* A sentence of n characters, the terminator included
Sent(c, n) == Rep(c, n - 1) \o <<".">>

\* "Hello there."
HelloThere ==
    <<"H", "e", "l", "l", "o", " ", "t", "h", "e", "r", "e", ".">>

\* " How are you today? "
HowAreYou ==
    <<" ", "H", "o", "w", " ", "a", "r", "e", " ", "y", "o", "u", " ",
    "t", "o", "d", "a", "y", "?", " ">>

\* "I'm doing well, thanks for asking!"
DoingWell ==
    <<"I", "'", "m", " ", "d", "o", "i", "n", "g", " ", "w", "e", "l",
    "l", ",", " ", "t", "h", "a", "n", "k", "s", " ", "f", "o", "r", " ",
    "a", "s", "k", "i", "n", "g", "!">>

\* A message is the sequence of its deltas
Scripts ==
    << \* three sentences of 30, one per delta
       << Sent("a", 30) \o <<" ">>, Sent("b", 30) \o <<" ">>, Sent("c", 30) >>,
       \* a sentence of 27 in two deltas, then a last delta shorter than 5
       << <<"d", "d", "d", "d", " ">>, Sent("d", 22), <<" ", "o", "k", ".">> >>,
       \* the same sentence twice
       << Sent("e", 30) \o <<" ">>, Sent("e", 30) \o <<" ">> >>,
       \* two sentences of 30 in one delta
       << Sent("f", 30) \o <<" ">> \o Sent("g", 30) >>,
       \* a sentence of 30, then 30 and 30 unterminated characters
       << Sent("h", 30) \o <<" ">>, Rep("i", 29) \o <<" ">>, Rep("j", 30) >>,
       \* a sentence of 30, then a remainder of 6 without terminator
       << Sent("k", 30) \o <<" ">>, <<"a", "n", "d", " ", "s", "o">> >>,
       \* a sentence of 3 and 27 unterminated characters in one delta
       << <<"O", "k", ".", " ">> \o Rep("p", 27) >>,
       \* 30 unterminated characters in two deltas, then a space and the
       \* same 30 characters
       << Rep("q", 5), Rep("q", 25), <<" ">> \o Rep("q", 30) >>,
       \* "Hello there.", " How are you today? ",
       \* "I'm doing well, thanks for asking!"
       << HelloThere, HowAreYou, DoingWell >> >>

\* The scripts of the messages that follow the first one
FollowUps == {4}

\* The scripts of the messages that a further message follows
Leads == {4}

\* Assistant messages per run
MaxTurns == 2

\* The deltas extractSentences is called with when it is exercised alone
SegDeltas ==
    { <<"H", "e", "l", "l", "o">>,              \* a word
      Rep(" ", 5),                              \* whitespace only
      <<"w", "o", "r", "l", "d", ".", " ">>,    \* ends a sentence
      <<"H", "i", ".", " ">>,                   \* a sentence below 10
      Sent("m", 15) \o <<" ">>,                 \* a sentence of 10..27
      Sent("n", 28),                            \* a sentence of 28
      <<" ", "a", "n", "d", " ">> }             \* a word between spaces

\* extractSentences calls per run when it is exercised alone
MaxFeeds == 4

\* generateTTS calls that resolve to null per run
MaxSynthFailures == 1

\* error events and play() rejections per run
MaxPlaybackErrors == 1

\* ------------------------------------------------------------------------
\* Actions
\* ------------------------------------------------------------------------

\* The state after the component mounted: no message yet
Init ==
    /\ msgId = 0
    /\ script = 1
    /\ delivered = 0
    /\ currentText = <<>>
    /\ chatStatus = "idle"
    /\ sentenceBuffer = <<>>
    /\ pendingShortSentence = <<>>
    /\ processedSentences = {}
    /\ lastProcessedTextLength = 0
    /\ orderCounter = 0
    /\ conversationId = 0
    /\ audioChunks = <<>>
    /\ isSynthesizing = FALSE
    /\ needsRender = FALSE
    /\ inflight = {}
    /\ isPlaying = FALSE
    /\ audioQueue = <<>>
    /\ currentAudio = NoAudio
    /\ nextExpectedOrder = 0
    /\ playbackScheduled = FALSE
    /\ playTimers = [b \in BOOLEAN |-> 0]
    /\ sounding = {}
    /\ paused = {}
    /\ streamingTimeout = NoTimeout
    /\ log = <<>>
    /\ handed = <<>>
    /\ played = <<>>
    /\ deferred = {}
    /\ fed = <<>>
    /\ returned = <<>>
    /\ faults = [synth |-> 0, playback |-> 0]
    /\ selectedSpeaker = Speakers[1]
    /\ responseSpeaker = NoSpeaker
    /\ mounted = TRUE
    /\ callPhase = [i \in 1..MaxCalls |-> "none"]
    /\ abortControllers = {}
    /\ abortedSignals = {}
    /\ audioUrls = {}
    /\ revokedUrls = {}
    /\ recorder = "none"
    /\ recorded = 0
    /\ finalChunkDue = FALSE
    /\ handlers = [k \in 1..MaxChunks |-> "none"]
    /\ positionRef = 0
    /\ totalPacketsRef = 0
    /\ wsSent = <<>>
    /\ atReset = [orderCounter |-> 0, sentenceBuffer |-> <<>>,
                  pendingShortSentence |-> <<>>, audioQueue |-> <<>>,
                  nextExpectedOrder |-> 0, isPlaying |-> FALSE,
                  currentAudio |-> NoAudio, sounding |-> {},
                  stallTimer |-> FALSE]
    /\ resolved = [outcome |-> "ok", result |-> "url"]

\* The render that shows the first delta of a new assistant message that
\* streams Scripts[k] (status "streaming")
StartMessage(k) ==
    Commit(RenderPass([Cur EXCEPT !.msgId = msgId + 1,
                                  !.script = k,
                                  !.delivered = 1,
                                  !.currentText = Tag(Scripts[k][1], 0),
                                  !.chatStatus = "loading"]))

\* The first assistant message of the session
FirstMessage ==
    /\ mounted
    /\ msgId = 0
    /\ \E k \in 1..Len(Scripts) : StartMessage(k)

\* A further assistant message, after the previous stream completed
NextMessage ==
    /\ mounted
    /\ msgId > 0
    /\ msgId < MaxTurns
    /\ script \in Leads
    /\ chatStatus = "idle"
    /\ \E k \in FollowUps : StartMessage(k)

\* Assistant messages per run of a longer conversation
MaxTurnsLong == 3

\* A further assistant message of a longer conversation
NextMessageLong ==
    /\ mounted
    /\ msgId > 0
    /\ msgId < MaxTurnsLong
    /\ script \in Leads
    /\ chatStatus = "idle"
    /\ \E k \in FollowUps : StartMessage(k)

\* The render that shows a new assistant message that streams Scripts[k]
\* before its first delta: its text is still empty
StartEmptyMessage(k) ==
    Commit(RenderPass([Cur EXCEPT !.msgId = msgId + 1,
                                  !.script = k,
                                  !.delivered = 0,
                                  !.currentText = <<>>,
                                  !.chatStatus = "loading"]))

\* The first assistant message appears without text
FirstMessageEmpty ==
    /\ mounted
    /\ msgId = 0
    /\ \E k \in 1..Len(Scripts) : StartEmptyMessage(k)

\* A further assistant message appears without text
NextMessageEmpty ==
    /\ mounted
    /\ msgId > 0
    /\ msgId < MaxTurns
    /\ script \in Leads
    /\ chatStatus = "idle"
    /\ \E k \in FollowUps : StartEmptyMessage(k)

\* The user selects the next speaker of the selector: the parent re-renders
ChangeSpeaker ==
    \E i \in 1..(Len(Speakers) - 1) :
        /\ mounted
        /\ selectedSpeaker = Speakers[i]
        /\ Commit(RenderPass([Cur EXCEPT !.selectedSpeaker = Speakers[i + 1]]))

\* The next delta of the message arrives
StreamDelta ==
    /\ mounted
    /\ chatStatus = "loading"
    /\ delivered < Len(Scripts[script])
    /\ Commit(RenderPass([Cur EXCEPT
              !.delivered = delivered + 1,
              !.currentText = @ \o Tag(Scripts[script][delivered + 1],
                                       Len(currentText))]))

\* The stream completes (status "ready")
StreamEnd ==
    /\ mounted
    /\ chatStatus = "loading"
    /\ delivered = Len(Scripts[script])
    /\ Commit(RenderPass([Cur EXCEPT !.chatStatus = "idle"]))

\* The re-render a state update asked for
Render ==
    /\ mounted
    /\ needsRender
    /\ Commit(RenderPass(Cur))

\* The stall timer fires (1000 ms; a pending re-render runs well before)
StreamingTimeoutFires ==
    /\ streamingTimeout.armed
    /\ ~needsRender
    /\ Commit(StreamingTimeoutCallback(
                  [Cur EXCEPT !.streamingTimeout = NoTimeout],
                  streamingTimeout.chatStatus, streamingTimeout.isPlaying))

\* The catch block of processSentences / the .catch of the merge
ContinuationCatch(st, call) ==
    UpdateChunkState(st, call.id, FALSE, <<>>, FALSE)

\* The continuation of processSentences / the .then of the merge after
\* generateTTS settled to result
ContinuationThen(st, call, result) ==
    LET s2 == UpdateChunkState(st, call.id, FALSE, call.text, call.merged)
        audio == [turn |-> call.turn, order |-> call.order, merged |-> call.merged]
    IN  IF result = "url" THEN AddToQueue(s2, audio, call.order, call.cap) ELSE s2

\* The fetch of call ended with outcome: generateTTS settles and the code
\* that awaited it continues
Continuation(st, call, outcome) ==
    LET result == GenerateTTSResult(outcome)
        s1 == [st EXCEPT !.inflight = @ \ {call},
                         !.resolved = [outcome |-> outcome, result |-> result]]
    IN  IF result = "rejected" THEN ContinuationCatch(s1, call)
        ELSE ContinuationThen(s1, call, result)

\* fetch returned OK: generateTTS resolves to an audio URL
SynthesisDone ==
    \E call \in inflight :
        /\ ~call.aborted
        /\ ~TooShortForServer(call.text)
        /\ Commit(Continuation(Cur, call, "ok"))

\* the server answered 400: the text is below the minimum
SynthesisTooShort ==
    \E call \in inflight :
        /\ ~call.aborted
        /\ TooShortForServer(call.text)
        /\ Commit(Continuation(Cur, call, "400"))

\* the server answered another non-OK status, or fetch threw
SynthesisFailed ==
    /\ faults.synth < MaxSynthFailures
    /\ \E call \in inflight : \E outcome \in {"500", "throw"} :
          /\ ~call.aborted
          /\ Commit(Continuation([Cur EXCEPT !.faults.synth = @ + 1],
                                 call, outcome))

\* the fetch of an aborted call rejects with an AbortError
SynthesisAborted ==
    \E call \in inflight :
        /\ call.aborted
        /\ Commit(Continuation(Cur, call, "abort"))

\* The component unmounts: the effects' cleanups run, which cancel the
\* stall timer and abort the tracked requests
Unmount ==
    /\ mounted
    /\ Commit(CancelAllRequests(ClearStreamingTimeout(
                  [Cur EXCEPT !.mounted = FALSE, !.needsRender = FALSE])))

\* A playback attempt timer fires
PlayTimerFires ==
    \E cap \in BOOLEAN :
        /\ playTimers[cap] > 0
        /\ Commit(PlayNextInQueue(
                      [Cur EXCEPT !.playTimers = [@ EXCEPT ![cap] = @ - 1]], cap))

\* The playing audio reaches its end
AudioEnded ==
    \E a \in sounding : Commit(OnEnded(Cur, a))

\* The playing audio raises an error event
AudioError ==
    /\ faults.playback < MaxPlaybackErrors
    /\ \E a \in sounding :
          Commit(OnPlaybackError([Cur EXCEPT !.faults.playback = @ + 1], a))

\* audio.play() of a paused audio rejects (the pause interrupted the play
\* request): the catch block of its playNextInQueue runs
PlayRejectedAfterPause ==
    /\ faults.playback < MaxPlaybackErrors
    /\ \E a \in paused :
          Commit(OnPlaybackError([Cur EXCEPT !.faults.playback = @ + 1,
                                             !.paused = @ \ {a}], a))

\* extractSentences(d) called directly with the next delta d of a stream
Feed ==
    /\ delivered < MaxFeeds
    /\ \E d \in SegDeltas :
          Commit([Extracted(Cur, Tag(d, Len(fed)),
                            ExtractSentences(sentenceBuffer, pendingShortSentence,
                                             Tag(d, Len(fed))))
                     EXCEPT !.delivered = delivered + 1])

\* The segmenter alone
SpecSeg == Init /\ [][Feed]_vars

\* ------------------------------------------------------------------------
\* useTTSGeneration exercised alone: generateTTS as useAutoTTS calls it
\* (without a signal), the ends of its fetch and of response.blob(), and
\* the unmount of the component
\* ------------------------------------------------------------------------

\* The calls that have not returned
CallsInFlight == {i \in 1..MaxCalls : callPhase[i] \in {"fetch", "blob"}}

\* generateTTS(sentence, speaker) up to its await fetch: the controller is
\* created and tracked
GenerateTTSCalled ==
    /\ mounted
    /\ \E i \in 1..MaxCalls :
          /\ callPhase[i] = "none"
          /\ \A j \in 1..(i - 1) : callPhase[j] # "none"
          /\ callPhase' = [callPhase EXCEPT ![i] = "fetch"]
          /\ abortControllers' = abortControllers \cup {i}
    /\ UNCHANGED <<abortedSignals, audioUrls, revokedUrls>>
    /\ CommitHooks(Cur)
    /\ UNCHANGED wisprVars

\* fetch resolves with an OK response: the controller is untracked and the
\* call awaits response.blob()
FetchResolvesOk ==
    /\ \E i \in 1..MaxCalls :
          /\ callPhase[i] = "fetch"
          /\ i \notin abortedSignals
          /\ callPhase' = [callPhase EXCEPT ![i] = "blob"]
          /\ abortControllers' = abortControllers \ {i}
    /\ UNCHANGED <<abortedSignals, audioUrls, revokedUrls>>
    /\ CommitHooks(Cur)
    /\ UNCHANGED wisprVars

\* fetch resolves with a non-OK response: the controller is untracked and
\* the call returns null (400) or through the catch block (other statuses)
FetchResolvesNotOk ==
    /\ \E i \in 1..MaxCalls :
          /\ callPhase[i] = "fetch"
          /\ i \notin abortedSignals
          /\ callPhase' = [callPhase EXCEPT ![i] = "returned"]
          /\ abortControllers' = abortControllers \ {i}
    /\ UNCHANGED <<abortedSignals, audioUrls, revokedUrls>>
    /\ CommitHooks(Cur)
    /\ UNCHANGED wisprVars

\* fetch rejects with a network error: the catch block returns null
FetchRejects ==
    /\ \E i \in 1..MaxCalls :
          /\ callPhase[i] = "fetch"
          /\ i \notin abortedSignals
          /\ callPhase' = [callPhase EXCEPT ![i] = "returned"]
    /\ UNCHANGED <<abortControllers, abortedSignals, audioUrls, revokedUrls>>
    /\ CommitHooks(Cur)
    /\ UNCHANGED wisprVars

\* the fetch of an aborted signal rejects with an AbortError: the catch
\* block returns null
FetchAborted ==
    /\ \E i \in 1..MaxCalls :
          /\ callPhase[i] = "fetch"
          /\ i \in abortedSignals
          /\ callPhase' = [callPhase EXCEPT ![i] = "returned"]
    /\ UNCHANGED <<abortControllers, abortedSignals, audioUrls, revokedUrls>>
    /\ CommitHooks(Cur)
    /\ UNCHANGED wisprVars

\* response.blob() resolves: the object URL is created, tracked and returned
BlobResolves ==
    /\ \E i \in 1..MaxCalls :
          /\ callPhase[i] = "blob"
          /\ callPhase' = [callPhase EXCEPT ![i] = "returned"]
          /\ audioUrls' = audioUrls \cup {i}
    /\ UNCHANGED <<abortControllers, abortedSignals, revokedUrls>>
    /\ CommitHooks(Cur)
    /\ UNCHANGED wisprVars

\* The component unmounts: the cleanup of useAutoTTS calls
\* cancelAllRequests, the cleanup of useTTSGeneration revokes and forgets
\* the tracked URLs and aborts and forgets the tracked controllers
UnmountGeneration ==
    /\ mounted
    /\ abortedSignals' = abortedSignals \cup abortControllers
    /\ abortControllers' = {}
    /\ revokedUrls' = revokedUrls \cup audioUrls
    /\ audioUrls' = {}
    /\ UNCHANGED callPhase
    /\ CommitHooks([Cur EXCEPT !.mounted = FALSE])
    /\ UNCHANGED wisprVars

NextGen ==
    \/ GenerateTTSCalled
    \/ FetchResolvesOk
    \/ FetchResolvesNotOk
    \/ FetchRejects
    \/ FetchAborted
    \/ BlobResolves
    \/ UnmountGeneration

\* useTTSGeneration alone
SpecGen == Init /\ [][NextGen]_vars

\* ------------------------------------------------------------------------
\* useWisprWebSocket exercised alone: one recording session over an open
\* socket
\* ------------------------------------------------------------------------

\* startTranscription after getUserMedia resolved: the counters are reset
\* and the recorder starts
StartTranscription ==
    /\ recorder = "none"
    /\ recorder' = "recording"
    /\ positionRef' = 0
    /\ totalPacketsRef' = 0
    /\ UNCHANGED <<recorded, finalChunkDue, handlers, wsSent>>
    /\ CommitHooks(Cur)
    /\ UNCHANGED genVars

\* The handler of the next chunk starts and stops at its first await
HandlerStarts ==
    /\ recorded' = recorded + 1
    /\ handlers' = [handlers EXCEPT ![recorded + 1] = "arrayBuffer"]

\* The recorder delivers the chunk of the last second (start(1000))
DataAvailable ==
    /\ recorder = "recording"
    /\ recorded < MaxChunks
    /\ HandlerStarts
    /\ UNCHANGED <<recorder, finalChunkDue, positionRef, totalPacketsRef, wsSent>>
    /\ CommitHooks(Cur)
    /\ UNCHANGED genVars

\* After stop() the recorder delivers the data gathered since the last chunk
FinalDataAvailable ==
    /\ finalChunkDue
    /\ recorded < MaxChunks
    /\ HandlerStarts
    /\ finalChunkDue' = FALSE
    /\ UNCHANGED <<recorder, positionRef, totalPacketsRef, wsSent>>
    /\ CommitHooks(Cur)
    /\ UNCHANGED genVars

\* event.data.arrayBuffer() of chunk k resolves: the handler goes on to its
\* second await
ArrayBufferResolves ==
    /\ \E k \in 1..MaxChunks :
          /\ handlers[k] = "arrayBuffer"
          /\ handlers' = [handlers EXCEPT ![k] = "decodeAudioData"]
    /\ UNCHANGED <<recorder, recorded, finalChunkDue, positionRef,
                   totalPacketsRef, wsSent>>
    /\ CommitHooks(Cur)
    /\ UNCHANGED genVars

\* decodeAudioData of chunk k resolves: the handler sends the append message
\* with the current position and advances both counters
DecodeResolves ==
    /\ \E k \in 1..MaxChunks :
          /\ handlers[k] = "decodeAudioData"
          /\ handlers' = [handlers EXCEPT ![k] = "done"]
          /\ wsSent' = Append(wsSent, [type |-> "append", chunk |-> k,
                                       position |-> positionRef])
    /\ positionRef' = positionRef + 1
    /\ totalPacketsRef' = totalPacketsRef + 1
    /\ UNCHANGED <<recorder, recorded, finalChunkDue>>
    /\ CommitHooks(Cur)
    /\ UNCHANGED genVars

\* stopTranscription: the recorder is stopped and the commit message is sent
\* in the same call
StopTranscription ==
    /\ recorder = "recording"
    /\ recorder' = "inactive"
    /\ finalChunkDue' = TRUE
    /\ wsSent' = Append(wsSent, [type |-> "commit",
                                 total_packets |-> totalPacketsRef])
    /\ UNCHANGED <<recorded, handlers, positionRef, totalPacketsRef>>
    /\ CommitHooks(Cur)
    /\ UNCHANGED genVars

NextWispr ==
    \/ StartTranscription
    \/ DataAvailable
    \/ FinalDataAvailable
    \/ ArrayBufferResolves
    \/ DecodeResolves
    \/ StopTranscription

\* useWisprWebSocket alone
SpecWispr == Init /\ [][NextWispr]_vars

\* One turn: the first message only
NextTurn ==
    \/ FirstMessage
    \/ FirstMessageEmpty
    \/ ChangeSpeaker
    \/ StreamDelta
    \/ StreamEnd
    \/ Render
    \/ StreamingTimeoutFires
    \/ SynthesisDone
    \/ SynthesisTooShort
    \/ SynthesisFailed
    \/ SynthesisAborted
    \/ Unmount
    \/ PlayTimerFires
    \/ AudioEnded
    \/ AudioError

SpecTurn == Init /\ [][NextTurn]_vars

\* One turn without failures, speaker changes and unmount
NextStall ==
    \/ FirstMessage
    \/ StreamDelta
    \/ StreamEnd
    \/ Render
    \/ StreamingTimeoutFires
    \/ SynthesisDone
    \/ SynthesisTooShort
    \/ PlayTimerFires
    \/ AudioEnded

SpecStall == Init /\ [][NextStall]_vars

\* A longer conversation without failures, speaker changes and unmount
NextLong ==
    \/ FirstMessage
    \/ NextMessageLong
    \/ StreamDelta
    \/ StreamEnd
    \/ Render
    \/ StreamingTimeoutFires
    \/ SynthesisDone
    \/ SynthesisTooShort
    \/ PlayTimerFires
    \/ AudioEnded

SpecLong == Init /\ [][NextLong]_vars

Next ==
    \/ FirstMessage
    \/ FirstMessageEmpty
    \/ NextMessage
    \/ NextMessageEmpty
    \/ ChangeSpeaker
    \/ StreamDelta
    \/ StreamEnd
    \/ Render
    \/ StreamingTimeoutFires
    \/ SynthesisDone
    \/ SynthesisTooShort
    \/ SynthesisFailed
    \/ SynthesisAborted
    \/ Unmount
    \/ PlayTimerFires
    \/ AudioEnded
    \/ AudioError
    \/ PlayRejectedAfterPause

Spec == Init /\ [][Next]_vars

\* ------------------------------------------------------------------------
\* Properties
\* ------------------------------------------------------------------------

\* The message positions of the characters of a text
Positions(s) == {s[i].p : i \in 1..Len(s)} \ {0}

\* Text a lies wholly before text b in the message
Precedes(a, b) ==
    /\ Positions(a) # {}
    /\ Positions(b) # {}
    /\ \A x \in Positions(a) : \A y \in Positions(b) : x < y

\* The generateTTS calls of the turn that dispatched a new unit
Units == SelectSeq(log, LAMBDA e : ~e.merged)

\* The orders of the queued audios, in queue order
QueueOrders == [i \in 1..Len(audioQueue) |-> audioQueue[i].order]

\* Pending playback attempt timers
PendingPlayTimers == playTimers[TRUE] + playTimers[FALSE]

\* The texts the segmenter holds or has returned
HeldTexts ==
    {returned[i] : i \in 1..Len(returned)}
        \cup {pendingShortSentence, sentenceBuffer}

\* How often the fed character ch occurs in what the segmenter holds or has
\* returned
RECURSIVE Occurrences(_, _)
Occurrences(ch, texts) ==
    IF texts = <<>> THEN 0
    ELSE Cardinality({i \in 1..Len(Head(texts)) : Head(texts)[i] = ch})
             + Occurrences(ch, Tail(texts))

\* Two characters next to each other in a held text were next to each other
\* in the input, unless whitespace or an inserted separator is involved
WordsKeptApart(t) ==
    \A i \in 1..(Len(t) - 1) :
        (t[i].p > 0 /\ t[i + 1].p > 0 /\ ~IsWS(t[i]) /\ ~IsWS(t[i + 1]))
            => t[i + 1].p = t[i].p + 1

\* C1: within one turn the audios playNextInQueue starts are those of orders
\* 0, 1, 2, ... in this order, each the audio of the unit dispatched under
\* that order, whatever the order in which the synthesis calls complete.
C1_PlaybackInDispatchOrder ==
    \A i \in 1..Len(played) :
        /\ played[i].order = i - 1
        /\ played[i].turn = conversationId
        /\ \E j \in 1..Len(log) : log[j].order = played[i].order

\* C1 witness: order 0 was started after the audios of orders 2 and 1 had
\* arrived in this (reverse) order and were left in the queue.
C1_Witness ==
    /\ Len(played) = 1
    /\ QueueOrders = <<2, 1>>

\* C2: at most one audio element is playing.
C2_AtMostOnePlaying == Cardinality(sounding) <= 1

\* C3: no audio of a synthesis call of an earlier turn is in the playback
\* queue or has been started in the current turn.
C3_NoStaleAudio ==
    /\ \A i \in 1..Len(audioQueue) : audioQueue[i].audio.turn = conversationId
    /\ \A i \in 1..Len(played) : played[i].turn = conversationId

\* C4: every text passed to generateTTS has trimmed length >= 28.
C4_DispatchedAtLeastMinimum ==
    \A i \in 1..Len(log) : Len(Trim(log[i].text)) >= MinTTSLength

\* C5: after each extractSentences call every character fed so far is in
\* exactly one of the returned sentences, the pending fragment and the
\* buffer; only whitespace may be missing, and never whitespace that
\* separates two words.
C5_EveryCharacterKept ==
    /\ \A k \in 1..Len(fed) :
          LET n == Occurrences(fed[k],
                       returned \o <<pendingShortSentence, sentenceBuffer>>)
          IN  n <= 1 /\ (~IsWS(fed[k]) => n = 1)
    /\ \A t \in HeldTexts : WordsKeptApart(t)

\* C6: every text handed to processSentences (a unit extractSentences
\* returned, a stall flush, the end-of-stream flush) is dispatched exactly
\* once: the dispatched units are the handed texts, one for one.
C6_DispatchedExactlyOnce ==
    /\ Len(Units) = Len(handed)
    /\ \A i \in 1..Len(Units) : Units[i].text = handed[i]

\* C7: once the stream has completed and the end-of-stream flush has run,
\* the whole message text has been passed to extractSentences.
C7_AllTextProcessedAtCompletion ==
    (msgId > 0 /\ chatStatus = "idle" /\ conversationId = msgId)
        => lastProcessedTextLength = Len(currentText)

\* C8: within a turn the dispatched units have pairwise different orders,
\* orderCounter counts them, and orderCounter never decreases except in the
\* step that begins a new turn.
C8_OrdersUnique ==
    /\ [](/\ orderCounter = Len(Units)
          /\ \A i, j \in 1..Len(Units) :
                i # j => Units[i].order # Units[j].order)
    /\ [][orderCounter' < orderCounter => conversationId' # conversationId]_vars

\* C8 witness: the second turn has dispatched two units.
C8_Witness ==
    /\ conversationId = 2
    /\ orderCounter = 2

\* C9: a unit whose text lies before another unit's text in the message is
\* dispatched under the smaller order.
C9_OrdersFollowText ==
    \A i, j \in 1..Len(log) :
        Precedes(log[i].text, log[j].text) => log[i].order < log[j].order

\* C9 witness: a unit from the segmenter, one from the stall timer and one
\* from the end-of-stream flush were dispatched in one turn.
C9_Witness ==
    /\ script = 5
    /\ Len(Units) = 3
    /\ chatStatus = "idle"

\* C10: within a turn nextExpectedOrder changes only when a playback attempt
\* runs, only by +1, and only together with the removal from the queue of the
\* entry of the old nextExpectedOrder, which is started.
C10_NextExpectedAdvances ==
    [][(nextExpectedOrder' # nextExpectedOrder /\ conversationId' = conversationId)
         => /\ nextExpectedOrder' = nextExpectedOrder + 1
            /\ PendingPlayTimers' = PendingPlayTimers - 1
            /\ LET i == FindIndex(audioQueue, nextExpectedOrder)
               IN  /\ i > 0
                   /\ audioQueue' = Splice(audioQueue, i)
                   /\ played' = Append(played, audioQueue[i].audio)
                   /\ currentAudio' = audioQueue[i].audio
                   /\ audioQueue[i].audio \in sounding']_vars

\* C10 witness: nextExpectedOrder has advanced twice in the second turn.
C10_Witness ==
    /\ conversationId = 2
    /\ nextExpectedOrder = 2
    /\ Len(played) = 2

\* The generateTTS calls in flight that an earlier turn dispatched
StaleCalls == {c \in inflight : c.turn # conversationId}

\* C11: once a new turn has begun, every synthesis call an earlier turn left
\* in flight has been aborted, and no audio of such a call is in the
\* playback queue.
C11_PreviousTurnCallsAborted ==
    /\ \A c \in StaleCalls : c.aborted
    /\ \A i \in 1..Len(audioQueue) : audioQueue[i].audio.turn = conversationId

\* C12: the synthesis calls dispatched for one turn, the merge re-dispatch
\* included, all carry the same speaker.
C12_OneVoicePerTurn ==
    \A i, j \in 1..Len(log) : log[i].speaker = log[j].speaker

\* C12 witness: a unit and the merge re-dispatch of the turn carry a speaker
\* that is no longer the selected one.
C12_Witness ==
    /\ Len(log) >= 2
    /\ \E i \in 1..Len(log) : log[i].merged
    /\ \A i \in 1..Len(log) : log[i].speaker # selectedSpeaker

\* C13: the step that begins a new turn (the first delta of a new assistant
\* message) leaves the speaker selected at that moment locked.
C13_VoiceLockedAtTurnStart ==
    [][conversationId' # conversationId
         => responseSpeaker' = selectedSpeaker']_vars

\* C14: when resetConversationState has run for the first delta of a new
\* turn, and before anything of the turn is dispatched, orderCounter is 0,
\* the segmenter's buffer and pending fragment are empty, the playback
\* queue is empty, nextExpectedOrder is 0, no audio is playing and the stall
\* timer is cancelled.
C14_ResetLeavesCleanState ==
    /\ atReset.orderCounter = 0
    /\ atReset.sentenceBuffer = <<>>
    /\ atReset.pendingShortSentence = <<>>
    /\ atReset.audioQueue = <<>>
    /\ atReset.nextExpectedOrder = 0
    /\ ~atReset.isPlaying
    /\ atReset.currentAudio = NoAudio
    /\ atReset.sounding = {}
    /\ ~atReset.stallTimer

TurnAudio(k, m) == [turn |-> conversationId, order |-> k, merged |-> m]

\* Audio a has been added to the playback queue
Arrived(a) ==
    \/ \E i \in 1..Len(audioQueue) : audioQueue[i].audio = a
    \/ \E i \in 1..Len(played) : played[i] = a

\* Audio a has been started
Started(a) == \E i \in 1..Len(played) : played[i] = a

\* The orders of the turn whose unit call resolved without an audio and
\* that no merge re-dispatch has filled
NullOrders ==
    {k \in {Units[i].order : i \in 1..Len(Units)} :
        /\ ~\E c \in inflight : c.turn = conversationId /\ c.order = k /\ ~c.merged
        /\ ~Arrived(TurnAudio(k, FALSE))
        /\ ~Arrived(TurnAudio(k, TRUE))}

\* Nothing is left to happen without a further delta: no call in flight, no
\* timer pending, no audio playing, no re-render waiting
Quiescent ==
    /\ mounted
    /\ inflight = {}
    /\ PendingPlayTimers = 0
    /\ sounding = {}
    /\ ~needsRender

\* C16: while the synthesis for order k has resolved to null and no merge
\* re-dispatch has filled order k, nextExpectedOrder is at most k and no
\* audio of an order >= k has been started; and once nothing is left to
\* happen, every audio of an order below the lowest such k has been started
\* and nextExpectedOrder is that k.
C16_StallAtFailedOrder ==
    \A k \in NullOrders :
        /\ nextExpectedOrder <= k
        /\ \A i \in 1..Len(played) : played[i].order < k
        /\ (Quiescent /\ \A j \in NullOrders : k <= j)
              => /\ nextExpectedOrder = k
                 /\ \A j \in 0..(k - 1) : Started(TurnAudio(j, FALSE))

\* The audios whose playback fails in this step: an error event of a playing
\* audio, or the rejection of the play() of a paused one
FailingNow == (sounding \ sounding') \cup (paused \ paused')

\* C17: a step in which the playback of the audio of order k fails leaves
\* isPlaying false and currentAudio empty, nextExpectedOrder at k + 1 and a
\* playback attempt pending; and once nothing is left to happen, no entry
\* of order nextExpectedOrder is waiting in the queue.
C17_PlaybackFailureRecovers ==
    /\ [][faults.playback' # faults.playback
            => \A a \in FailingNow :
                  /\ ~isPlaying'
                  /\ currentAudio' = NoAudio
                  /\ nextExpectedOrder' = a.order + 1
                  /\ playbackScheduled'
                  /\ PendingPlayTimers' > 0]_vars
    /\ [](Quiescent => FindIndex(audioQueue, nextExpectedOrder) = 0)

\* The stream is active, every delta has been processed and at least 28
\* characters are left in the segmenter's buffer
BufferStalled ==
    /\ mounted
    /\ chatStatus = "loading"
    /\ conversationId = msgId
    /\ lastProcessedTextLength = Len(currentText)
    /\ Len(sentenceBuffer) >= MinTTSLength

\* C18: while the stream is active and at least 28 characters wait in the
\* buffer with every delta processed and no re-render pending, the stall
\* timer is armed. Only an armed timer can fire, and only a further delta
\* arms it, so a state without it is one from which the buffered text is
\* never flushed by the stall timer.
C18_StallTimerFlushes ==
    BufferStalled /\ ~needsRender => streamingTimeout.armed

\* The pending fragment and the trimmed buffer, fragment first, one space
\* between them when both are there
CombinedRemainder ==
    LET fragment == Chars(pendingShortSentence)
        remainder == Chars(Trim(sentenceBuffer))
    IN  IF fragment # <<>> /\ remainder # <<>>
        THEN fragment \o <<" ">> \o remainder
        ELSE fragment \o remainder

\* The stream completes in this step
Completes == chatStatus = "loading" /\ chatStatus' = "idle"

\* C19: when the stream completes, a combination of pending fragment and
\* trimmed buffer of at least 28 characters is dispatched as one new unit
\* under the next sequence number, buffer and fragment are empty afterwards,
\* and nothing more is dispatched for the completed message.
C19_FinalFlushDispatchedOnce ==
    /\ [][Completes =>
            /\ sentenceBuffer' = <<>>
            /\ pendingShortSentence' = <<>>
            /\ Len(CombinedRemainder) >= MinTTSLength =>
                  /\ orderCounter' = orderCounter + 1
                  /\ Len(log') = Len(log) + 1
                  /\ log'[Len(log')].order = orderCounter
                  /\ ~log'[Len(log')].merged
                  /\ Chars(log'[Len(log')].text) = CombinedRemainder]_vars
    /\ [][(chatStatus = "idle" /\ chatStatus' = "idle" /\ msgId' = msgId)
             => log' = log]_vars

\* The unit dispatched last in the turn
LastUnit == Units[Len(Units)]

\* The stream completes in this step with a non-empty remainder below 28
\* characters after at least one unit was dispatched in the turn
CompletesShort ==
    /\ Completes
    /\ CombinedRemainder # <<>>
    /\ Len(CombinedRemainder) < MinTTSLength
    /\ Len(Units) >= 1

\* C20: when the stream completes with a non-empty remainder shorter than 28
\* and a unit was dispatched in the turn, the unit dispatched last is
\* dispatched again with its text, one space and the remainder, under its
\* original order, and orderCounter does not change.
C20_ShortRemainderMerged ==
    [][CompletesShort =>
          /\ orderCounter' = orderCounter
          /\ Len(log') = Len(log) + 1
          /\ log'[Len(log')].merged
          /\ log'[Len(log')].order = LastUnit.order
          /\ Chars(log'[Len(log')].text)
                 = Chars(LastUnit.text) \o <<" ">> \o CombinedRemainder]_vars

\* A short remainder has been merged into the unit of order 0 and
\* dispatched under that order; the next order is still 1
C20_Witness ==
    /\ script = 6
    /\ chatStatus = "idle"
    /\ orderCounter = 1
    /\ Len(log) = 2
    /\ log[2].merged /\ log[2].order = 0
    /\ Chars(log[2].text)
           = Chars(log[1].text) \o <<" ", "a", "n", "d", " ", "s", "o">>

\* This step dispatches a merge re-dispatch
MergeDispatched == Len(log') = Len(log) + 1 /\ log'[Len(log')].merged

\* The audio synthesized for the original text of order k of the turn
OriginalAudio(k) == [turn |-> conversationId, order |-> k, merged |-> FALSE]

\* Audio a waits in the playback queue
InQueue(a) == \E i \in 1..Len(audioQueue) : audioQueue[i].audio = a

\* C21: when a merge re-dispatches an order whose original audio waits in
\* the playback queue, the original entry is removed from the queue.
C21_MergeEvictsOriginal ==
    [][(MergeDispatched /\ InQueue(OriginalAudio(log'[Len(log')].order)))
          => \A i \in 1..Len(audioQueue') :
                 audioQueue'[i].audio # OriginalAudio(log'[Len(log')].order)]_vars

\* The audio synthesized for the merge re-dispatch of order k of the turn
MergedAudio(k) == [turn |-> conversationId, order |-> k, merged |-> TRUE]

\* C22: once the stream has completed and nothing is left to happen (no call
\* in flight, no playback attempt pending, nothing playing, no re-render
\* waiting), a merged audio whose synthesis succeeded has been played.
C22_MergedAudioPlayed ==
    (Quiescent /\ chatStatus = "idle" /\ conversationId = msgId)
        => \A i \in 1..Len(log) :
               (log[i].merged /\ Arrived(MergedAudio(log[i].order)))
                   => Started(MergedAudio(log[i].order))

\* remainingText.length >= 10 of processFinalBuffer
ShortFinalFloor == 10

\* The stream completes in this step with a non-empty remainder below 28
\* characters and no unit dispatched in the turn
CompletesAlone ==
    /\ Completes
    /\ CombinedRemainder # <<>>
    /\ Len(CombinedRemainder) < MinTTSLength
    /\ log = <<>>

\* C23: when the stream completes with a remainder shorter than 28 and
\* nothing was dispatched in the turn, a remainder of at least 10 characters
\* is dispatched on its own and a shorter one is dropped.
C23_ShortRemainderAlone ==
    [][CompletesAlone =>
          IF Len(CombinedRemainder) >= ShortFinalFloor
          THEN /\ Len(log') = 1
               /\ Chars(log'[1].text) = CombinedRemainder
          ELSE log' = log]_vars

\* Every generateTTS call of the turn has delivered its audio
AllSynthesized ==
    \A i \in 1..Len(log) : Arrived(TurnAudio(log[i].order, log[i].merged))

\* No chunk is pending, the playback queue is empty, nothing is playing and
\* the busy flag is false
TurnIdle ==
    /\ \A i \in 1..Len(audioChunks) : ~audioChunks[i].isProcessing
    /\ audioQueue = <<>>
    /\ ~isPlaying
    /\ currentAudio = NoAudio
    /\ ~isSynthesizing

\* C24: once the stream has ended, every synthesis call has delivered its
\* audio and nothing is left to happen (no playback attempt pending, nothing
\* playing, no re-render waiting), the turn is idle.
C24_TurnReturnsToIdle ==
    (Quiescent /\ chatStatus = "idle" /\ conversationId = msgId
               /\ AllSynthesized)
        => TurnIdle

\* Some chunk is pending, or the playback queue is non-empty, or an audio is
\* playing
TurnBusy ==
    \/ \E i \in 1..Len(audioChunks) : audioChunks[i].isProcessing
    \/ audioQueue # <<>>
    \/ sounding # {}

\* C25: once every state update has been rendered, the busy flag is true
\* exactly when a chunk is pending, the playback queue is non-empty or an
\* audio is playing.
C25_BusyFlagTracksActivity ==
    (mounted /\ ~needsRender) => (isSynthesizing <=> TurnBusy)

\* C26: at most one playback attempt, a timer that will call
\* playNextInQueue, is pending.
C26_OneAttemptPending == PendingPlayTimers <= 1

\* An attempt has waited for the expected order, and an audio of that order
\* is now in the queue while nothing is playing
DeferredEntryWaits ==
    /\ mounted
    /\ nextExpectedOrder \in deferred
    /\ FindIndex(audioQueue, nextExpectedOrder) # 0
    /\ sounding = {}

\* C27: when an attempt has waited for the expected order and an audio of
\* that order is then queued while nothing is playing, a playback attempt is
\* pending as soon as the state updates are rendered, and the attempt that
\* fires starts that audio.
C27_DeferredEntryPlayed ==
    /\ [](DeferredEntryWaits /\ ~needsRender => PendingPlayTimers > 0)
    /\ [][(DeferredEntryWaits /\ mounted'
              /\ PendingPlayTimers' < PendingPlayTimers)
             => played' = Append(played,
                    audioQueue[FindIndex(audioQueue, nextExpectedOrder)].audio)]_vars

\* An attempt waited for order 1, and the audio of order 1 was started later
C27_Witness ==
    /\ 1 \in deferred
    /\ Len(played) >= 2
    /\ played[2].order = 1
    /\ sounding = {played[2]}

\* "Hello there. How are you today?"
HelloHowAreYou ==
    HelloThere \o <<" ">> \o SubSeq(HowAreYou, 2, Len(HowAreYou) - 1)

\* The texts of the generateTTS calls of the turn, in call order
LogTexts == [i \in 1..Len(log) |-> Chars(log[i].text)]

\* The orders of the generateTTS calls of the turn, in call order
LogOrders == [i \in 1..Len(log) |-> log[i].order]

\* A unit in which every join is one space between two non-blank characters
SingleSpaceJoins(u) ==
    \A i \in 1..Len(u) :
        u[i].p = 0 => /\ u[i].c = " "
                      /\ 1 < i /\ i < Len(u)
                      /\ ~IsWS(u[i - 1]) /\ ~IsWS(u[i + 1])

\* C28: the deltas "Hello there.", " How are you today? ", "I'm doing well,
\* thanks for asking!" lead to exactly two dispatches, "Hello there. How are
\* you today?" under order 0 and "I'm doing well, thanks for asking!" under
\* order 1; and every unit extractSentences returns has at least 28
\* characters, its sentences joined by single spaces.
C28_ShortSentenceJoinedWithNext ==
    /\ (script = 9 /\ conversationId = msgId) =>
          /\ delivered = 1 => LogTexts = <<>>
          /\ delivered = 2 => LogTexts = <<HelloHowAreYou>>
          /\ delivered = 3 => LogTexts = <<HelloHowAreYou, DoingWell>>
          /\ LogOrders = [i \in 1..Len(log) |-> i - 1]
    /\ \A i \in 1..Len(returned) :
          /\ Len(returned[i]) >= MinTTSLength
          /\ SingleSpaceJoins(returned[i])

\* The example has been streamed to its end and both units were dispatched
C28_Witness ==
    /\ script = 9
    /\ chatStatus = "idle"
    /\ LogTexts = <<HelloHowAreYou, DoingWell>>
    /\ LogOrders = <<0, 1>>

\* The complete sentences extractSentences holds back after a call: the
\* pending fragment, which the call moves into the buffer when no
\* unterminated text follows it
HeldFragment ==
    IF pendingShortSentence # <<>> THEN pendingShortSentence
    ELSE IF HasCompleteEnd(sentenceBuffer) THEN Trim(sentenceBuffer)
         ELSE <<>>

\* C29: a join of the pending fragment with a new segment that reaches 28
\* characters is returned by the call that found the boundary, so after a
\* call the fragment held back is shorter than 28.
C29_JoinReturnedAtMinimum == Len(HeldFragment) < MinTTSLength

\* The unit u starts with the characters of t, joined to what follows them
StartsWithJoined(u, t) ==
    /\ Len(u) > Len(t) + 1
    /\ Chars(SubSeq(u, 1, Len(t))) = t
    /\ u[Len(t) + 1] = SP

\* A complete sentence below 10 characters
TinySegments ==
    { Chars(Trim(Tag(d, 0))) :
        d \in { e \in SegDeltas : /\ HasCompleteEnd(Tag(e, 0))
                                  /\ Len(Trim(Tag(e, 0))) < TinyLength } }

\* extractSentences is called with the tiny segment t while no unterminated
\* text is buffered
TinyFed(t) ==
    /\ delivered' = delivered + 1
    /\ Trim(sentenceBuffer) = <<>> \/ HasCompleteEnd(sentenceBuffer)
    /\ Chars(Trim(SubSeq(fed', Len(fed) + 1, Len(fed')))) = t

\* C30: no unit returned by extractSentences is shorter than 10 characters,
\* and a call with a terminated segment below 10 returns nothing: the segment
\* starts the pending fragment or is joined to it by one space. So it reaches
\* the output only inside a longer combined unit.
C30_TinySegmentNeverAlone ==
    /\ [](\A i \in 1..Len(returned) : Len(returned[i]) >= TinyLength)
    /\ [][\A t \in TinySegments : TinyFed(t) =>
            /\ returned' = returned
            /\ Chars(HeldFragment') =
                  IF HeldFragment = <<>> THEN t
                  ELSE Chars(HeldFragment) \o <<" ">> \o t]_vars

\* A unit has been returned whose first sentence is the 3-character segment
\* "Hi.", joined to the sentence after it
C30_Witness ==
    \E i \in 1..Len(returned) : StartsWithJoined(returned[i], <<"H", "i", ".">>)

\* C31: once the component is unmounted, every generateTTS call that has not
\* returned has an aborted signal, no controller is tracked and no audio URL
\* is tracked.
C31_TeardownReleasesEverything ==
    ~mounted =>
        /\ \A i \in CallsInFlight : i \in abortedSignals
        /\ abortControllers = {}
        /\ audioUrls = {}

\* A pending playback attempt runs (nothing else removes an attempt timer)
AttemptRuns == PendingPlayTimers' < PendingPlayTimers

C33_FlagMeansTimerPending == playbackScheduled => PendingPlayTimers > 0

\* After an attempt has run and played an entry, the flag is true again with
\* one attempt pending
C33_Witness ==
    /\ played # <<>>
    /\ playbackScheduled
    /\ PendingPlayTimers = 1

\* C34: the playback queue holds at most one entry per order.
C34_OneEntryPerOrder ==
    \A i, j \in 1..Len(audioQueue) :
        audioQueue[i].order = audioQueue[j].order => i = j

\* C35: every entry of the playback queue has an order that playback has
\* not passed yet.
C35_QueueOrdersNotPassed ==
    \A i \in 1..Len(audioQueue) : audioQueue[i].order >= nextExpectedOrder

\* C36: every string extractSentences has returned has at least 28
\* characters.
C36_ReturnedAtLeastMinimum ==
    \A i \in 1..Len(returned) : Len(returned[i]) >= MinTTSLength

\* A unit has been returned that is the join of two parts, each of them
\* shorter than 28 characters
C36_Witness ==
    \E i \in 1..Len(returned) : \E j \in 1..Len(returned[i]) :
        /\ returned[i][j] = SP
        /\ j - 1 < MinTTSLength
        /\ Len(returned[i]) - j < MinTTSLength

\* C37: the stall timer that is pending, if any, was armed for the most
\* recent delta of the current message: a timer armed before that delta, or
\* for a previous message, is no longer pending and so cannot fire.
C37_StallTimerIsLatest ==
    streamingTimeout.armed =>
        /\ streamingTimeout.turn = msgId
        /\ streamingTimeout.delivered = delivered

\* The stall timer armed for the second message is pending, after one was
\* armed for the first message
C37_Witness ==
    /\ streamingTimeout.armed
    /\ streamingTimeout.turn = 2

\* The append messages sent so far
Appends == SelectSeq(wsSent, LAMBDA m : m.type = "append")

\* C38: the append messages carry the chunks in the order they were recorded
\* under positions 0, 1, 2, ..; a commit message is the last message sent and
\* its total_packets is the number of append messages sent.
C38_AppendsOrderedAndCounted ==
    /\ \A i \in 1..Len(Appends) : Appends[i].position = i - 1
    /\ \A i, j \in 1..Len(Appends) : i < j => Appends[i].chunk < Appends[j].chunk
    /\ \A i \in 1..Len(wsSent) :
          wsSent[i].type = "commit" =>
              /\ i = Len(wsSent)
              /\ wsSent[i].total_packets = Len(Appends)

\* C39: a controller is tracked exactly while its generateTTS call is in
\* flight (a call whose signal was aborted counts as finished), so no
\* controller is tracked when no call is in flight.
C39_RegistryTracksCallsInFlight ==
    /\ abortControllers = CallsInFlight \ abortedSignals
    /\ CallsInFlight = {} => abortControllers = {}

====
